---- MODULE Spec2Model ----
(***************************************************************************)
(* A model of flax/experimental/nnx/nnx/nn/attention.py: the mask          *)
(* utilities, dot_product_attention_weights, and the MultiHeadAttention    *)
(* module with its autoregressive decode cache.                            *)
(*                                                                         *)
(* Arrays are records [shape, val]: shape is the tuple of axis lengths and *)
(* val maps every 1-based index tuple of that shape to an integer.         *)
(* Booleans stored in arrays are 1 (True) and 0 (False), which is also     *)
(* what astype(float32) turns them into.  An Optional[T] is the empty      *)
(* tuple (None) or a one-element tuple <<x>>.                              *)
(***************************************************************************)
EXTENDS Integers, Sequences, FiniteSets, TLC

VARIABLES self, cached_key, cached_value, cache_index, call, result, pure

vars == <<self, cached_key, cached_value, cache_index, call, result, pure>>

None == <<>>

Some(x) == <<x>>

Max(a, b) == IF a >= b THEN a ELSE b

Min(a, b) == IF a <= b THEN a ELSE b

(***************************************************************************)
(* Bounds of the model.                                                    *)
(***************************************************************************)
\* longest sequence axis of a mask-utility input
MaxSeq == 5
\* largest number of extra leading singleton axes asked of make_causal_mask
MaxExtra == 1
\* largest batch axis
MaxBatch == 2
\* length of the masks handed to combine_masks
MaskLen == 2
\* largest number of arguments handed to combine_masks
MaxMasks == 3
\* longest query axis and longest key axis handed to dot_product_attention_weights
MaxQ == 2
MaxKv == 3
\* most attention heads and largest feature size given to the constructor
MaxHeads == 2
MaxFeatures == 10
\* longest cache (max_length) and longest input sequence axis of a module call
MaxLen == 2
\* number of distinct input tensors
MaxTok == 2
\* a weight counts as approximately zero when it is below 1 / TolInv
TolInv == 1000

(***************************************************************************)
(* jax.numpy array operations used by the source.                          *)
(***************************************************************************)
RECURSIVE IndexSet(_)
IndexSet(shape) ==
  IF Len(shape) = 0 THEN {<<>>}
  ELSE {<<i>> \o rest : i \in 1..Head(shape), rest \in IndexSet(Tail(shape))}

Array(shape, val) == [shape |-> shape, val |-> val]

ndim(a) == Len(a.shape)

InsertAt(s, pos, x) == SubSeq(s, 1, pos - 1) \o <<x>> \o SubSeq(s, pos, Len(s))

RemoveAt(s, pos) == SubSeq(s, 1, pos - 1) \o SubSeq(s, pos + 1, Len(s))

\* jnp.expand_dims(a, axis) for one axis, negative axes counted from the end
\* of the result
expand_dims(a, axis) ==
  LET pos == IF axis < 0 THEN ndim(a) + 2 + axis ELSE axis + 1
      shape == InsertAt(a.shape, pos, 1)
  IN  Array(shape, [idx \in IndexSet(shape) |-> a.val[RemoveAt(idx, pos)]])

\* jnp.expand_dims(a, axis=tuple(range(n))): n leading singleton axes
RECURSIVE expand_leading(_, _)
expand_leading(a, n) ==
  IF n = 0 THEN a ELSE expand_leading(expand_dims(a, 0), n - 1)

PadLeft(s, n) == SubSeq([i \in 1..n |-> 1], 1, n - Len(s)) \o s

\* numpy broadcasting of two shapes: right-aligned, axes equal or one of them 1
Broadcastable(s1, s2) ==
  LET n  == Max(Len(s1), Len(s2))
      p1 == PadLeft(s1, n)
      p2 == PadLeft(s2, n)
  IN  \A i \in 1..n : p1[i] = p2[i] \/ p1[i] = 1 \/ p2[i] = 1

broadcast_shapes(s1, s2) ==
  LET n  == Max(Len(s1), Len(s2))
      p1 == PadLeft(s1, n)
      p2 == PadLeft(s2, n)
  IN  SubSeq([i \in 1..n |-> Max(p1[i], p2[i])], 1, n)

\* the index of operand a that the result index idx reads under broadcasting
BroadcastIndex(idx, s) ==
  LET off == Len(idx) - Len(s)
  IN  SubSeq([i \in 1..Len(s) |-> IF s[i] = 1 THEN 1 ELSE idx[i + off]], 1, Len(s))

broadcast_to(a, shape) ==
  Array(shape, [idx \in IndexSet(shape) |-> a.val[BroadcastIndex(idx, a.shape)]])

\* the two operands of an elementwise operation, broadcast to their common shape
broadcast_arrays(a, b) ==
  LET shape == broadcast_shapes(a.shape, b.shape)
  IN  <<broadcast_to(a, shape), broadcast_to(b, shape)>>

\* jnp.arange(n)
arange(n) == Array(<<n>>, [idx \in IndexSet(<<n>>) |-> idx[1] - 1])

logical_and(x, y) == IF x # 0 /\ y # 0 THEN 1 ELSE 0

greater_equal(x, y) == IF x >= y THEN 1 ELSE 0

less_equal(x, y) == IF x <= y THEN 1 ELSE 0

multiply(x, y) == x * y

\* the pairwise_fn argument of make_attention_mask, chosen by name
Pairwise(fn, x, y) ==
  IF fn = "greater_equal" THEN greater_equal(x, y) ELSE multiply(x, y)

(***************************************************************************)
(* Mask utilities.                                                         *)
(***************************************************************************)
make_attention_mask(query_input, key_input, pairwise_fn, extra_batch_dims) ==
  LET qk    == broadcast_arrays(expand_dims(query_input, -1),
                                expand_dims(key_input, -2))
      mask  == Array(qk[1].shape,
                     [idx \in IndexSet(qk[1].shape) |->
                        Pairwise(pairwise_fn, qk[1].val[idx], qk[2].val[idx])])
      mask2 == expand_dims(mask, -3)
  IN  expand_leading(mask2, extra_batch_dims)

make_causal_mask_multiply(x, extra_batch_dims) ==
  LET idxs == broadcast_to(arange(x.shape[Len(x.shape)]), x.shape)
  IN  make_attention_mask(idxs, idxs, "multiply", extra_batch_dims)

make_causal_mask(x, extra_batch_dims) ==
  LET idxs == broadcast_to(arange(x.shape[Len(x.shape)]), x.shape)
  IN  make_attention_mask(idxs, idxs, "greater_equal", extra_batch_dims)

RECURSIVE and_reduce(_, _)
\* the loop of combine_masks; None when jnp.logical_and cannot broadcast
and_reduce(mask, other_masks) ==
  IF other_masks = <<>> THEN Some(mask)
  ELSE IF ~Broadcastable(mask.shape, Head(other_masks).shape) THEN None
  ELSE LET ab == broadcast_arrays(mask, Head(other_masks))
       IN  and_reduce(Array(ab[1].shape,
                            [idx \in IndexSet(ab[1].shape) |->
                               logical_and(ab[1].val[idx], ab[2].val[idx])]),
                      Tail(other_masks))

Raise(err) == [status |-> "error", err |-> err, out |-> None]

Return(out) == [status |-> "ok", err |-> "", out |-> out]

combine_masks_first_only(masks) ==
  LET masks_list == SelectSeq(masks, LAMBDA m : m # None)
  IN  IF masks_list = <<>> THEN Return(None)
      ELSE Return(Some(masks_list[1][1]))

\* masks: a tuple of Optional[Array]
combine_masks(masks) ==
  LET masks_list == SelectSeq(masks, LAMBDA m : m # None)
  IN  IF masks_list = <<>> THEN Return(None)
      ELSE IF \E i \in 1..Len(masks_list) :
                ndim(masks_list[i][1]) # ndim(masks_list[1][1])
      THEN Raise("AssertionError: masks must have same rank")
      ELSE LET mask == and_reduce(masks_list[1][1],
                         [i \in 1..(Len(masks_list) - 1) |-> masks_list[i + 1][1]])
           IN  IF mask = None THEN Raise("ValueError: incompatible shapes for broadcasting")
               ELSE Return(mask)

ConstArray(shape, v) == Array(shape, [idx \in IndexSet(shape) |-> v])

\* masks by pattern over the last axis
PatternArray(shape, pat) ==
  Array(shape, [idx \in IndexSet(shape) |->
    LET j == idx[Len(idx)]
    IN  IF pat = "ones" THEN 1
        ELSE IF pat = "zeros" THEN 0
        ELSE IF pat = "first" THEN (IF j = 1 THEN 1 ELSE 0)
        ELSE IF pat = "notfirst" THEN (IF j = 1 THEN 0 ELSE 1)
        ELSE 2])

(***************************************************************************)
(* dot_product_attention_weights.  Scores are integers in units of ln 2,   *)
(* so that softmax is exact in rationals: a weight is a pair <<num, den>>. *)
(* BigNeg stands for jnp.finfo(dtype).min, the least finite value: adding  *)
(* an ordinary score to it rounds back to it.                              *)
(***************************************************************************)
BigNeg == -20

\* floating-point addition of scores
AddF(x, y) == IF x = BigNeg \/ y = BigNeg THEN BigNeg ELSE Max(BigNeg, x + y)

RECURSIVE Pow2(_)
Pow2(n) == IF n = 0 THEN 1 ELSE 2 * Pow2(n - 1)

RECURSIVE Sum(_)
Sum(s) == IF Len(s) = 0 THEN 0 ELSE Head(s) + Sum(Tail(s))

\* jnp.sqrt(depth) for the perfect squares the model uses
Sqrt(d) == CHOOSE r \in 0..d : r * r = d

\* jnp.einsum('...qhd,...khd->...hqk', query, key)
einsum_qhd_khd(query, key) ==
  LET r     == ndim(query)
      batch == SubSeq(query.shape, 1, r - 3)
      shape == batch \o <<query.shape[r - 1], query.shape[r - 2], key.shape[r - 2]>>
  IN  Array(shape, [idx \in IndexSet(shape) |->
        LET b == SubSeq(idx, 1, r - 3)
            h == idx[r - 2]
            q == idx[r - 1]
            k == idx[r]
        IN  Sum([d \in 1..query.shape[r] |-> query.val[b \o <<q, h, d>>] * key.val[b \o <<k, h, d>>]])])

\* jax.nn.softmax over the last axis
softmax(x) ==
  LET r == ndim(x)
      n == x.shape[r]
  IN  Array(x.shape, [idx \in IndexSet(x.shape) |->
        <<Pow2(x.val[idx] - BigNeg),
          Sum([j \in 1..n |-> Pow2(x.val[SubSeq(idx, 1, r - 1) \o <<j>>] - BigNeg)])>>])

\* the shape checks of lines 89-92
qk_shapes_ok(query, key) ==
  /\ ndim(query) = ndim(key)
  /\ ndim(query) >= 3
  /\ SubSeq(query.shape, 1, ndim(query) - 3) = SubSeq(key.shape, 1, ndim(key) - 3)
  /\ query.shape[ndim(query) - 1] = key.shape[ndim(key) - 1]
  /\ query.shape[ndim(query)] = key.shape[ndim(key)]

\* the scaled dot products with the bias added (lines 95-104)
biased_scores(query, key, bias) ==
  LET depth  == query.shape[ndim(query)]
      scaled == Array(query.shape,
                      [idx \in IndexSet(query.shape) |-> query.val[idx] \div Sqrt(depth)])
      attn   == einsum_qhd_khd(scaled, key)
      ab     == broadcast_arrays(attn, bias[1])
  IN  IF bias # None
      THEN Array(ab[1].shape,
                 [idx \in IndexSet(ab[1].shape) |->
                    AddF(ab[1].val[idx], ab[2].val[idx])])
      ELSE attn

attention_scores_unmasked(query, key, bias, mask) == biased_scores(query, key, bias)

\* the scores handed to softmax: the mask applied to the biased scores
attention_scores(query, key, bias, mask) ==
  LET biased == biased_scores(query, key, bias)
  IN  IF mask # None
      THEN Array(biased.shape,
                 [idx \in IndexSet(biased.shape) |->
                    IF mask[1].val[BroadcastIndex(idx, mask[1].shape)] # 0
                    THEN biased.val[idx] ELSE BigNeg])
      ELSE biased

\* dropout_rng is the Bernoulli draw it yields, as a mask pattern; dropout_rate
\* is in tenths
dot_product_attention_weights(query, key, bias, mask, broadcast_dropout, dropout_rng, dropout_rate, deterministic) ==
  IF ~qk_shapes_ok(query, key) THEN Raise("AssertionError: q, k shapes")
  ELSE
    LET attn_weights == softmax(attention_scores(query, key, bias, mask))
        r            == ndim(attn_weights)
    IN  IF ~deterministic /\ dropout_rate > 0
        THEN LET keep_prob     == 10 - dropout_rate
                 dropout_shape ==
                   IF broadcast_dropout
                   THEN SubSeq([i \in 1..r |-> 1], 1, ndim(key) - 2)
                          \o SubSeq(attn_weights.shape, r - 1, r)
                   ELSE attn_weights.shape
                 keep == PatternArray(dropout_shape, dropout_rng)
             IN  Return(Some(Array(attn_weights.shape, [idx \in IndexSet(attn_weights.shape) |->
                   <<attn_weights.val[idx][1] * keep.val[BroadcastIndex(idx, keep.shape)] * 10,
                     attn_weights.val[idx][2] * keep_prob>>])))
        ELSE Return(Some(attn_weights))

(***************************************************************************)
(* MultiHeadAttention.  An input tensor is [shape, tok]: tok names its     *)
(* contents.  A projected tensor or a cache is [shape, rows]: rows[p] names *)
(* the [batch..., num_heads, depth] slab at position p of the length axis, *)
(* 0 for an all-zero slab.  The three learned projections are injective    *)
(* and distinct: the slab of input tok at position p under projection kind *)
(* (1 query, 2 key, 3 value) is kind * 100 + tok * 10 + p.                 *)
(***************************************************************************)
\* args: [num_heads, features_in, out_features, dropout_rate, deterministic, decode]
MultiHeadAttention_init_features_in(args) ==
  LET features_out ==
        IF args.out_features # None THEN args.out_features[1] ELSE args.features_in
  IN  IF args.features_in % args.num_heads # 0
      THEN [status |-> "error",
            err |-> "ValueError: features_out must be divisible by num_heads"]
      ELSE [status |-> "ok", err |-> "",
            num_heads |-> args.num_heads,
            features_in |-> args.features_in,
            features_out |-> features_out,
            dropout_rate |-> args.dropout_rate,
            deterministic |-> args.deterministic,
            decode |-> args.decode,
            head_dim |-> args.features_in \div args.num_heads]

MultiHeadAttention_init(args) ==
  LET features_out ==
        IF args.out_features # None THEN args.out_features[1] ELSE args.features_in
  IN  IF features_out % args.num_heads # 0
      THEN [status |-> "error",
            err |-> "ValueError: features_out must be divisible by num_heads"]
      ELSE [status |-> "ok", err |-> "",
            num_heads |-> args.num_heads,
            features_in |-> args.features_in,
            features_out |-> features_out,
            dropout_rate |-> args.dropout_rate,
            deterministic |-> args.deterministic,
            decode |-> args.decode,
            head_dim |-> features_out \div args.num_heads]

Input(shape, tok) == [shape |-> shape, tok |-> tok]

\* the size of the length axis of [batch..., length, num_heads, depth]
length(shape) == shape[Len(shape) - 2]

Tensor(shape, rows) == [shape |-> shape, rows |-> SubSeq(rows, 1, length(shape))]

\* jnp.zeros(cache_shape)
zeros(shape) == Tensor(shape, [p \in 1..length(shape) |-> 0])

SlabId(kind, tok, p) == kind * 100 + tok * 10 + p

\* self.query / self.key / self.value: features_in -> (num_heads, head_dim)
LinearGeneral(slf, kind, x) ==
  LET shape == SubSeq(x.shape, 1, Len(x.shape) - 1) \o <<slf.num_heads, slf.head_dim>>
  IN  Tensor(shape, [p \in 1..length(shape) |-> SlabId(kind, x.tok, p)])

\* the cache fields after init_cache(input_shape)
init_cache(slf, input_shape) ==
  LET cache_shape == SubSeq(input_shape, 1, Len(input_shape) - 1)
                       \o <<slf.num_heads, slf.features_out>>
  IN  [cached_key |-> Some(zeros(cache_shape)),
       cached_value |-> Some(zeros(cache_shape)),
       cache_index |-> Some(0)]

\* lax.dynamic_update_slice needs equal rank and an update no larger than the
\* operand on any axis
update_fits(operand, update) ==
  /\ ndim(operand) = ndim(update)
  /\ \A i \in 1..ndim(operand) : update.shape[i] <= operand.shape[i]

\* lax.dynamic_update_slice(operand, update, (0, ..., start, 0, 0)): the start
\* index is clamped so that the update lies inside the operand
dynamic_update_slice(operand, update, start) ==
  LET n == Len(update.rows)
      s == Max(0, Min(start, Len(operand.rows) - n))
  IN  Tensor(operand.shape,
             [p \in 1..length(operand.shape) |->
                IF p - 1 >= s /\ p - 1 < s + n
                THEN update.rows[p - s] ELSE operand.rows[p]])

default_inputs_v_from_q(inputs_q, inputs_k, inputs_v) ==
  IF inputs_k = None /\ inputs_v # None
  THEN [status |-> "error",
        err |-> "ValueError: inputs_k cannot be None if inputs_v is not None"]
  ELSE [status |-> "ok", err |-> "",
        inputs_k |-> IF inputs_k = None THEN inputs_q ELSE inputs_k[1],
        inputs_v |-> IF inputs_v = None THEN inputs_q ELSE inputs_v[1]]

\* lines 442-451: the inputs that stand for inputs_k and inputs_v
default_inputs(inputs_q, inputs_k, inputs_v) ==
  IF inputs_k = None /\ inputs_v # None
  THEN [status |-> "error",
        err |-> "ValueError: inputs_k cannot be None if inputs_v is not None"]
  ELSE LET k == IF inputs_k = None THEN inputs_q ELSE inputs_k[1]
       IN  [status |-> "ok", err |-> "",
            inputs_k |-> k,
            inputs_v |-> IF inputs_v = None THEN k ELSE inputs_v[1]]

\* module.first_from: the first argument that is not None
first_from(args) ==
  LET given == SelectSeq(args, LAMBDA x : x # None)
  IN  IF given = <<>>
      THEN [status |-> "error", err |-> "ValueError: no non-None arguments found"]
      ELSE [status |-> "ok", err |-> "", value |-> given[1][1]]

resolve_dropout_module_first(slf, deterministic, rngs, flag) ==
  IF slf.dropout_rate > 0
  THEN LET r == first_from(<<slf.deterministic, deterministic, flag>>)
       IN  CASE r.status = "error" -> r
             [] r.status = "ok" /\ r.value ->
                  [status |-> "ok", err |-> "", deterministic |-> TRUE,
                   dropout_rng |-> None]
             [] r.status = "ok" /\ ~r.value /\ rngs = None ->
                  [status |-> "error", err |-> "ValueError: rngs must be provided"]
             [] OTHER ->
                  [status |-> "ok", err |-> "", deterministic |-> FALSE,
                   dropout_rng |-> rngs]
  ELSE [status |-> "ok", err |-> "", deterministic |-> TRUE, dropout_rng |-> None]

\* lines 507-526: the deterministic flag and whether a dropout key is drawn
resolve_dropout(slf, deterministic, rngs, flag) ==
  IF slf.dropout_rate > 0
  THEN LET r == first_from(<<deterministic, slf.deterministic, flag>>)
       IN  CASE r.status = "error" -> r
             [] r.status = "ok" /\ r.value ->
                  [status |-> "ok", err |-> "", deterministic |-> TRUE,
                   dropout_rng |-> None]
             [] r.status = "ok" /\ ~r.value /\ rngs = None ->
                  [status |-> "error", err |-> "ValueError: rngs must be provided"]
             [] OTHER ->
                  [status |-> "ok", err |-> "", deterministic |-> FALSE,
                   dropout_rng |-> rngs]
  ELSE [status |-> "ok", err |-> "", deterministic |-> TRUE, dropout_rng |-> None]

decode_mask_next_slot(batch_dims, max_length, cur_index) ==
  LET positions == arange(max_length)
  IN  broadcast_to(Array(positions.shape,
                         [idx \in IndexSet(positions.shape) |->
                            less_equal(positions.val[idx], cur_index + 1)]),
                   batch_dims \o <<1, 1, max_length>>)

\* the causal mask of lines 501-504
decode_mask(batch_dims, max_length, cur_index) ==
  LET positions == arange(max_length)
  IN  broadcast_to(Array(positions.shape,
                         [idx \in IndexSet(positions.shape) |->
                            less_equal(positions.val[idx], cur_index)]),
                   batch_dims \o <<1, 1, max_length>>)

\* the shape checks of dot_product_attention (lines 176-183, 89-92) and the
\* broadcast of the mask against the [batch..., heads, q, kv] weights
attention_shapes_ok(query, key, value) ==
  LET r == ndim(query)
  IN  /\ ndim(key) = r /\ ndim(value) = r
      /\ SubSeq(query.shape, 1, r - 3) = SubSeq(key.shape, 1, r - 3)
      /\ SubSeq(key.shape, 1, r - 3) = SubSeq(value.shape, 1, r - 3)
      /\ query.shape[r - 1] = key.shape[r - 1]
      /\ key.shape[r - 1] = value.shape[r - 1]
      /\ key.shape[r - 2] = value.shape[r - 2]
      /\ query.shape[r] = key.shape[r]

weights_shape(query, key) ==
  LET r == ndim(query)
  IN  SubSeq(query.shape, 1, r - 3) \o <<query.shape[r - 1], query.shape[r - 2], key.shape[r - 2]>>

mask_fits(mask, query, key) ==
  mask = None
  \/ /\ Broadcastable(mask[1].shape, weights_shape(query, key))
     /\ broadcast_shapes(mask[1].shape, weights_shape(query, key)) = weights_shape(query, key)

Outcome(res, ck, cv, ci) ==
  [result |-> res, cached_key |-> ck, cached_value |-> cv, cache_index |-> ci]

Failed(err, cur) ==
  [op |-> "call", status |-> "error", err |-> err, cur_index |-> cur,
   attn |-> None, out_shape |-> None]

Last(s) == s[Len(s)]

\* lines 472-505, reached with decode set: the shape check, the cache write,
\* the index increment and the causal mask, in the order of the code.  The
\* query check at line 481 makes the non-length axes of key and value equal
\* those of the cache, so a write replaces whole slabs.
decode_step(ck, cv, ci, query, key, value, mask) ==
  IF ck = None \/ cv = None \/ ci = None
  THEN [status |-> "error", err |-> "AttributeError: cached_key",
        cur_index |-> None, cached_key |-> ck, cached_value |-> cv, cache_index |-> ci]
  ELSE
    LET r              == ndim(ck[1])
        batch_dims     == SubSeq(ck[1].shape, 1, r - 3)
        max_length     == ck[1].shape[r - 2]
        num_heads      == ck[1].shape[r - 1]
        depth_per_head == ck[1].shape[r]
        expected_shape == batch_dims \o <<1, num_heads, depth_per_head>>
        cur_index      == ci[1]
    IN  IF expected_shape # query.shape
        THEN [status |-> "error", err |-> "ValueError: Autoregressive cache shape error",
              cur_index |-> None, cached_key |-> ck, cached_value |-> cv,
              cache_index |-> ci]
        ELSE IF ~update_fits(ck[1], key) \/ ~update_fits(cv[1], value)
        THEN [status |-> "error", err |-> "TypeError: dynamic_update_slice",
              cur_index |-> Some(cur_index), cached_key |-> ck, cached_value |-> cv,
              cache_index |-> ci]
        ELSE
          LET new_key   == dynamic_update_slice(ck[1], key, cur_index)
              new_value == dynamic_update_slice(cv[1], value, cur_index)
              combined  == combine_masks(
                             <<mask, Some(decode_mask(batch_dims, max_length, cur_index))>>)
          IN  [status |-> combined.status, err |-> combined.err,
               cur_index |-> Some(cur_index),
               key |-> new_key, value |-> new_value, mask |-> combined.out,
               cached_key |-> Some(new_key), cached_value |-> Some(new_value),
               cache_index |-> Some(cur_index + 1)]

\* a: [inputs_q, inputs_k, inputs_v, mask, deterministic, rngs, flag]; flag is
\* what flags.get('deterministic') returns during the call
MultiHeadAttention_call(slf, ck, cv, ci, a) ==
  LET d == default_inputs(a.inputs_q, a.inputs_k, a.inputs_v)
  IN  IF d.status = "error" THEN Outcome(Failed(d.err, None), ck, cv, ci)
      ELSE IF Last(a.inputs_q.shape) # slf.features_in
      THEN Outcome(Failed("ValueError: Incompatible input dimension", None), ck, cv, ci)
      ELSE IF Last(d.inputs_k.shape) # slf.features_in
              \/ Last(d.inputs_v.shape) # slf.features_in
      THEN Outcome(Failed("TypeError: LinearGeneral input dimension", None), ck, cv, ci)
      ELSE
        LET query == LinearGeneral(slf, 1, a.inputs_q)
            key   == LinearGeneral(slf, 2, d.inputs_k)
            value == LinearGeneral(slf, 3, d.inputs_v)
            s     == IF slf.decode
                     THEN decode_step(ck, cv, ci, query, key, value, a.mask)
                     ELSE [status |-> "ok", err |-> "", cur_index |-> None,
                           key |-> key, value |-> value, mask |-> a.mask,
                           cached_key |-> ck, cached_value |-> cv, cache_index |-> ci]
        IN  IF s.status = "error"
            THEN Outcome(Failed(s.err, s.cur_index),
                         s.cached_key, s.cached_value, s.cache_index)
            ELSE
              LET dr == resolve_dropout(slf, a.deterministic, a.rngs, a.flag)
              IN  IF dr.status = "error"
                  THEN Outcome(Failed(dr.err, s.cur_index),
                               s.cached_key, s.cached_value, s.cache_index)
                  ELSE IF ~attention_shapes_ok(query, s.key, s.value)
                          \/ ~mask_fits(s.mask, query, s.key)
                  THEN Outcome(Failed("AssertionError: attention shapes", s.cur_index),
                               s.cached_key, s.cached_value, s.cache_index)
                  ELSE Outcome(
                         [op |-> "call", status |-> "ok", err |-> "",
                          cur_index |-> s.cur_index,
                          attn |-> Some([query |-> query, key |-> s.key,
                                         value |-> s.value, mask |-> s.mask,
                                         deterministic |-> dr.deterministic,
                                         dropout_rng |-> dr.dropout_rng]),
                          out_shape |-> Some(SubSeq(query.shape, 1, ndim(query) - 2)
                                               \o <<slf.features_out>>)],
                         s.cached_key, s.cached_value, s.cache_index)

(***************************************************************************)
(* The module as a state machine: the constructed instance, its cache      *)
(* fields, the last operation (call) and what it returned (result).        *)
(***************************************************************************)
NotCalled == [fn |-> "none"]

Tokens == 1..MaxTok

OptBool == {None, Some(TRUE), Some(FALSE)}

\* the configurations of the decode protocol: features divisible by every
\* head count up to MaxHeads is not required, a failing construction is
\* simply not an instance
ModuleArgs ==
  {[num_heads |-> h, features_in |-> MaxHeads, out_features |-> None,
    dropout_rate |-> dr, deterministic |-> det, decode |-> dec] :
     h \in 1..MaxHeads, dr \in {0, 5}, det \in OptBool, dec \in BOOLEAN}

AllArgs ==
  {[num_heads |-> h, features_in |-> f, out_features |-> o,
    dropout_rate |-> dr, deterministic |-> det, decode |-> dec] :
     h \in 1..(MaxHeads + 1), f \in 1..MaxFeatures,
     o \in {None} \cup {Some(x) : x \in 1..MaxFeatures},
     dr \in {0, 5}, det \in OptBool, dec \in BOOLEAN}

Done(op) ==
  [op |-> op, status |-> "ok", err |-> "", cur_index |-> None, attn |-> None,
   out_shape |-> None]

Init ==
  /\ \E args \in ModuleArgs :
       /\ MultiHeadAttention_init(args).status = "ok"
       /\ self = MultiHeadAttention_init(args)
       /\ call = [op |-> "init", args |-> args]
  /\ cached_key = None
  /\ cached_value = None
  /\ cache_index = None
  /\ result = Done("init")
  /\ pure = NotCalled

CacheInputShapes == {<<MaxBatch, l, self.features_in>> : l \in 1..MaxLen}

InitCache ==
  /\ self.status = "ok"
  /\ \E input_shape \in CacheInputShapes :
       LET c == init_cache(self, input_shape)
       IN  /\ cached_key' = c.cached_key
           /\ cached_value' = c.cached_value
           /\ cache_index' = c.cache_index
           /\ call' = [op |-> "init_cache", input_shape |-> input_shape]
  /\ result' = Done("init_cache")
  /\ UNCHANGED <<self, pure>>

Args(q, k, v, mask, det, rngs, flag) ==
  [op |-> "call", inputs_q |-> q, inputs_k |-> k, inputs_v |-> v, mask |-> mask,
   deterministic |-> det, rngs |-> rngs, flag |-> flag]

Std(l, tok) == Input(<<MaxBatch, l, self.features_in>>, tok)

CallArgs ==
  \* query shapes and contents
  {Args(Std(1, t), None, None, None, None, None, None) : t \in Tokens}
  \cup {Args(Input(b \o <<l, self.features_in>>, 1), None, None, None, None, None, None) :
          b \in {<<>>, <<MaxBatch>>, <<1>>}, l \in 1..MaxLen}
  \cup {Args(Input(<<MaxBatch, 1, self.features_in + 1>>, 1),
             None, None, None, None, None, None)}
  \* separate key and value inputs
  \cup {Args(Std(1, 1), k, v, None, None, None, None) :
          k \in {None} \cup {Some(Std(l, MaxTok)) : l \in 1..MaxLen},
          v \in {None} \cup {Some(Std(l, 1)) : l \in 1..MaxLen}}
  \* caller masks of the rank of the weights and of a lower rank
  \cup {Args(Std(1, 1), None, None, Some(PatternArray(sh, pat)), None, None, None) :
          sh \in {<<1, 1, 1, MaxLen>>, <<1, 1, MaxLen>>}, pat \in {"ones", "notfirst"}}
  \* the sources of the deterministic flag and the random source
  \cup {Args(Std(1, 1), None, None, None, det, rngs, flag) :
          det \in OptBool, rngs \in {None, Some("dropout")}, flag \in OptBool}

Call ==
  /\ self.status = "ok"
  \* the index is followed one step past the capacity of the cache
  /\ IF cache_index = None THEN TRUE
     ELSE cache_index[1] <= length(cached_key[1].shape)
  /\ \E a \in CallArgs :
       \E o \in {MultiHeadAttention_call(self, cached_key, cached_value, cache_index, a)} :
         /\ call' = a
         /\ result' = o.result
         /\ cached_key' = o.cached_key
         /\ cached_value' = o.cached_value
         /\ cache_index' = o.cache_index
  /\ UNCHANGED <<self, pure>>

Next ==
  \/ InitCache
  \/ Call

Spec == Init /\ [][Next]_vars

\* construction alone, over every argument combination
InitNew ==
  /\ self = [status |-> "new"]
  /\ call \in {[op |-> "init", args |-> args] : args \in AllArgs}
  /\ cached_key = None
  /\ cached_value = None
  /\ cache_index = None
  /\ result = [op |-> "none"]
  /\ pure = NotCalled

Construct ==
  /\ self.status = "new"
  /\ call.op = "init"
  /\ self' = MultiHeadAttention_init(call.args)
  /\ result' = [op |-> "init", status |-> self'.status]
  /\ UNCHANGED <<cached_key, cached_value, cache_index, call, pure>>

NextNew == Construct

SpecInit == InitNew /\ [][NextNew]_vars

(***************************************************************************)
(* Calls of the pure functions: Init draws the arguments, the action       *)
(* applies the function and records what it returned.                      *)
(***************************************************************************)
MaskPatterns == {"ones", "zeros", "first", "notfirst"}

MaskArgs ==
  {None}
  \cup {Some(PatternArray(<<MaskLen>>, p)) : p \in MaskPatterns \cup {"twos"}}
  \cup {Some(PatternArray(<<1, MaskLen>>, p)) : p \in MaskPatterns}
  \cup {Some(ConstArray(<<1>>, 1)), Some(ConstArray(<<MaskLen + 1>>, 1))}

RECURSIVE Tuples(_, _)
Tuples(S, n) ==
  IF n = 0 THEN {<<>>}
  ELSE {<<x>> \o t : x \in S, t \in Tuples(S, n - 1)}

CausalInputs ==
  {ConstArray(<<n>>, 0) : n \in 1..MaxSeq}
  \cup {ConstArray(<<b, n>>, 0) : b \in 1..MaxBatch, n \in 1..MaxSeq}

\* a [1, Lq, Lk] mask whose rows differ: row q allows keys up to q
RowsMask(lq, lk) ==
  Array(<<1, lq, lk>>,
        [idx \in IndexSet(<<1, lq, lk>>) |-> less_equal(idx[3], idx[2])])

RowArrays(lk, V) ==
  {Array(<<1, 1, lk>>, [idx \in IndexSet(<<1, 1, lk>>) |-> f[idx[3]]]) : f \in [1..lk -> V]}

WeightInputsFor(lq, lk) ==
  {[fn |-> "dot_product_attention_weights",
    query |-> ConstArray(<<lq, 1, 1>>, 1),
    key |-> PatternArray(<<lk, 1, 1>>, kp),
    bias |-> b, mask |-> m, broadcast_dropout |-> TRUE, dropout_rng |-> "ones",
    dropout_rate |-> 0, deterministic |-> d] :
     kp \in {"ones", "first"},
     b \in {None} \cup {Some(a) : a \in RowArrays(lk, {BigNeg, 0, 1})},
     m \in {None} \cup {Some(a) : a \in RowArrays(lk, {0, 1})}
           \cup {Some(RowsMask(lq, lk))},
     d \in BOOLEAN}

WeightInputs == UNION {WeightInputsFor(lq, lk) : lq \in 1..MaxQ, lk \in 1..MaxKv}

DropoutInputs ==
  {[fn |-> "dot_product_attention_weights",
    query |-> ConstArray(<<MaxBatch, lq, 1, 1>>, 1),
    key |-> PatternArray(<<MaxBatch, lk, 1, 1>>, "ones"),
    bias |-> None, mask |-> None, broadcast_dropout |-> bd, dropout_rng |-> rng,
    dropout_rate |-> 5, deterministic |-> d] :
     lq \in 1..MaxQ, lk \in 1..MaxKv, bd \in BOOLEAN,
     rng \in {"ones", "first", "zeros"}, d \in BOOLEAN}

BadShapeInputs ==
  {[fn |-> "dot_product_attention_weights",
    query |-> ConstArray(<<1, 1, 1>>, 1),
    key |-> ConstArray(ks, 1),
    bias |-> None, mask |-> None, broadcast_dropout |-> TRUE, dropout_rng |-> "ones",
    dropout_rate |-> 0, deterministic |-> TRUE] :
     ks \in {<<1, 2, 1>>, <<1, 1, 1, 1>>, <<2, 1, 2>>}}

Pending == [status |-> "pending", err |-> "", out |-> None]

InitPure ==
  /\ self = [status |-> "new"]
  /\ cached_key = None
  /\ cached_value = None
  /\ cache_index = None
  /\ call = [op |-> "none"]
  /\ result = [op |-> "none"]
  /\ \/ \E n \in 0..MaxMasks : \E masks \in Tuples(MaskArgs, n) :
          pure = [fn |-> "combine_masks", masks |-> masks, ret |-> Pending]
     \/ \E x \in CausalInputs : \E e \in 0..MaxExtra :
          pure = [fn |-> "make_causal_mask", x |-> x, extra_batch_dims |-> e,
                  ret |-> Pending]
     \/ \E a \in WeightInputs \cup DropoutInputs \cup BadShapeInputs :
          pure = a @@ [ret |-> Pending]

ModuleUnchanged == UNCHANGED <<self, cached_key, cached_value, cache_index, call, result>>

ApplyCombineMasks ==
  /\ pure.fn = "combine_masks"
  /\ pure.ret.status = "pending"
  /\ pure' = [pure EXCEPT !.ret = combine_masks(pure.masks)]
  /\ ModuleUnchanged

ApplyMakeCausalMask ==
  /\ pure.fn = "make_causal_mask"
  /\ pure.ret.status = "pending"
  /\ pure' = [pure EXCEPT !.ret = Return(Some(make_causal_mask(pure.x, pure.extra_batch_dims)))]
  /\ ModuleUnchanged

ApplyAttentionWeights ==
  /\ pure.fn = "dot_product_attention_weights"
  /\ pure.ret.status = "pending"
  /\ pure' = [pure EXCEPT !.ret =
       dot_product_attention_weights(pure.query, pure.key, pure.bias, pure.mask,
         pure.broadcast_dropout, pure.dropout_rng, pure.dropout_rate,
         pure.deterministic)]
  /\ ModuleUnchanged

NextPure ==
  \/ ApplyCombineMasks
  \/ ApplyMakeCausalMask
  \/ ApplyAttentionWeights

SpecPure == InitPure /\ [][NextPure]_vars

(***************************************************************************)
(* Properties of the module, checked under Spec (C10 under SpecInit).      *)
(***************************************************************************)
CacheVars == <<cached_key, cached_value, cache_index>>

max_length == cached_key[1].shape[Len(cached_key[1].shape) - 2]

cache_batch_dims == SubSeq(cached_key[1].shape, 1, Len(cached_key[1].shape) - 3)

\* a call of the decode protocol: one new position for the cached batch, no
\* separate key or value input, no mask, dropout off
ProtocolCall(a) ==
  /\ a.op = "call"
  /\ a.inputs_q.shape = cache_batch_dims \o <<1, self.features_in>>
  /\ a.inputs_k = None /\ a.inputs_v = None /\ a.mask = None
  /\ self.dropout_rate = 0

\* C1: in decode mode, after init_cache with length L, every call of the
\* protocol made while cache_index < L succeeds, raises cache_index by one
\* (so the i-th call leaves it at i) and writes its projected key and value
\* at the position the index had (i - 1), for any num_heads >= 1.
C1_DecodeProtocol ==
  [][(/\ self.decode
      /\ cached_key # None
      /\ ProtocolCall(call')
      /\ cache_index[1] < max_length)
     => (/\ result'.status = "ok"
         /\ cache_index' = Some(cache_index[1] + 1)
         /\ cached_key'[1].rows[cache_index[1] + 1] = SlabId(2, call'.inputs_q.tok, 1)
         /\ cached_value'[1].rows[cache_index[1] + 1] = SlabId(3, call'.inputs_q.tok, 1))
  ]_vars

\* C2: 0 <= cache_index <= max_length in every reachable state.
C2_IndexWithinCache ==
  cache_index # None => (0 <= cache_index[1] /\ cache_index[1] <= max_length)

\* C3: after init_cache(input_shape) the two caches are all-zero tensors of
\* shape input_shape[:-1] + (num_heads, head_dim) and cache_index is 0.
C3_InitCacheShape ==
  call.op = "init_cache" =>
    LET shape == SubSeq(call.input_shape, 1, Len(call.input_shape) - 1)
                   \o <<self.num_heads, self.head_dim>>
    IN  /\ cached_key = Some([shape |-> shape,
                              rows |-> [p \in 1..call.input_shape[Len(call.input_shape) - 1] |-> 0]])
        /\ cached_value = cached_key
        /\ cache_index = Some(0)

\* C4: a call that fails leaves cached_key, cached_value and cache_index as
\* they were before the call.
C4_FailedCallKeepsCache ==
  [][(call'.op = "call" /\ result'.status = "error") => UNCHANGED CacheVars]_vars

\* what the call with arguments b does from the current state is what happened
SameAs(b) ==
  \E o \in {MultiHeadAttention_call(self, cached_key, cached_value, cache_index, b)} :
    /\ result' = o.result
    /\ cached_key' = o.cached_key
    /\ cached_value' = o.cached_value
    /\ cache_index' = o.cache_index

\* C5: with inputs_k and inputs_v absent the call does what the call with
\* inputs_k = inputs_v = inputs_q does; with only inputs_v absent it does what
\* the call with inputs_v = inputs_k does; with inputs_v given and inputs_k
\* absent it fails with the usage error and touches neither projection nor
\* cache; with both given the key projection is applied to inputs_k and the
\* value projection to inputs_v.
C5_InputDefaulting ==
  [][call'.op = "call" =>
      LET a == call'
      IN  /\ (a.inputs_k = None /\ a.inputs_v = None) =>
               SameAs([a EXCEPT !.inputs_k = Some(a.inputs_q),
                                !.inputs_v = Some(a.inputs_q)])
          /\ (a.inputs_k # None /\ a.inputs_v = None) =>
               /\ SameAs([a EXCEPT !.inputs_v = a.inputs_k])
               /\ (result'.status = "ok" /\ ~self.decode) =>
                    result'.attn[1].value = LinearGeneral(self, 3, a.inputs_k[1])
          /\ (a.inputs_k = None /\ a.inputs_v # None) =>
               /\ result'.status = "error"
               /\ result'.err = "ValueError: inputs_k cannot be None if inputs_v is not None"
               /\ result'.attn = None
               /\ UNCHANGED CacheVars
          /\ (a.inputs_k # None /\ a.inputs_v # None
                /\ result'.status = "ok" /\ ~self.decode) =>
               /\ result'.attn[1].key = LinearGeneral(self, 2, a.inputs_k[1])
               /\ result'.attn[1].value = LinearGeneral(self, 3, a.inputs_v[1])
  ]_vars

C5_Witness ==
  /\ call.op = "call"
  /\ call.inputs_k # None
  /\ call.inputs_v = None
  /\ call.inputs_k[1].tok # call.inputs_q.tok
  /\ result.status = "ok"
  /\ ~self.decode
  /\ result.attn[1].value.rows[1] = SlabId(3, call.inputs_k[1].tok, 1)

\* the first defined of the per-call override, the module default and the
\* ambient flag
FirstDefined ==
  IF call.deterministic # None THEN call.deterministic
  ELSE IF self.deterministic # None THEN self.deterministic
  ELSE call.flag

\* the call got as far as the dropout block
ReachedDropout ==
  /\ call.inputs_k = None /\ call.inputs_v = None /\ call.mask = None
  /\ Last(call.inputs_q.shape) = self.features_in
  /\ ~self.decode \/ result.cur_index # None

DropoutErrors ==
  {"ValueError: no non-None arguments found", "ValueError: rngs must be provided"}

\* C6: with dropout_rate 0 the call needs no flag and no random source and
\* runs the attention function deterministically; with dropout_rate > 0 the
\* flag is the first defined of override, module default and ambient flag,
\* and the call fails with a usage error when none is defined or when the
\* flag is false and no random source was given.
C6_DeterministicFlag ==
  call.op = "call" =>
    /\ self.dropout_rate = 0 =>
         /\ result.err \notin DropoutErrors
         /\ ReachedDropout => result.status = "ok"
         /\ result.status = "ok" =>
              result.attn[1].deterministic /\ result.attn[1].dropout_rng = None
    /\ (self.dropout_rate > 0 /\ result.status = "ok") =>
         /\ FirstDefined # None
         /\ result.attn[1].deterministic = FirstDefined[1]
         /\ FirstDefined[1] => result.attn[1].dropout_rng = None
         /\ ~FirstDefined[1] =>
              call.rngs # None /\ result.attn[1].dropout_rng = call.rngs
    /\ (self.dropout_rate > 0 /\ FirstDefined = None) =>
         /\ result.status = "error"
         /\ ReachedDropout => result.err = "ValueError: no non-None arguments found"
    /\ (self.dropout_rate > 0 /\ FirstDefined = Some(FALSE) /\ call.rngs = None) =>
         /\ result.status = "error"
         /\ ReachedDropout => result.err = "ValueError: rngs must be provided"
    /\ (self.dropout_rate > 0 /\ ReachedDropout /\ FirstDefined # None
          /\ (FirstDefined[1] \/ call.rngs # None)) =>
         result.status = "ok"

\* the module default is overridden by the call, and the ambient flag is
\* only read when both are undefined
C6_Witness ==
  /\ call.op = "call"
  /\ self.dropout_rate > 0
  /\ self.deterministic = Some(FALSE)
  /\ call.deterministic = Some(TRUE)
  /\ call.flag = Some(FALSE)
  /\ call.rngs = None
  /\ result.status = "ok"
  /\ result.attn[1].deterministic

AcceptedDecodeCall == self.decode /\ call'.op = "call" /\ result'.status = "ok"

\* cache new is cache old with the slab written at 0-based position c, which
\* is a position of the cache, and nothing else altered
WrittenOnlyAt(old, new, c, slab) ==
  /\ new.shape = old.shape
  /\ c + 1 \in 1..Len(old.rows)
  /\ new.rows[c + 1] = slab
  /\ \A p \in 1..Len(old.rows) : p # c + 1 => new.rows[p] = old.rows[p]

\* C11: every accepted decode-mode call, with keys and values defaulted or
\* supplied, at any cache_index including that of a full cache, writes the
\* new key and value at the position cache_index had before the call, leaves
\* every other position and the shape of both caches as they were, and
\* raises cache_index by exactly one.
C11_DecodeWriteFrame ==
  [][AcceptedDecodeCall =>
       LET d == default_inputs(call'.inputs_q, call'.inputs_k, call'.inputs_v)
           c == cache_index[1]
       IN  /\ cache_index' = Some(c + 1)
           /\ WrittenOnlyAt(cached_key[1], cached_key'[1], c,
                            LinearGeneral(self, 2, d.inputs_k).rows[1])
           /\ WrittenOnlyAt(cached_value[1], cached_value'[1], c,
                            LinearGeneral(self, 3, d.inputs_v).rows[1])
  ]_vars

\* the decode-mode call returned normally, so its mask reached the attention
\* function
DecodeMaskHandedOver ==
  self.decode /\ call.op = "call" /\ result.status = "ok"

\* C12: in a decode-mode call made when cache_index = c (cur_index of line
\* 488), the mask handed to the attention function allows key position j
\* exactly when j <= c and the mask of the caller, if there is one, allows j;
\* so every position j > c is excluded whatever the mask of the caller holds.
C12_DecodeMaskCausal ==
  DecodeMaskHandedOver =>
    LET c    == result.cur_index[1]
        mask == result.attn[1].mask[1]
    IN  \A idx \in DOMAIN mask.val :
          LET j == idx[Len(idx)] - 1
          IN  mask.val[idx] # 0 <=>
                /\ j <= c
                /\ call.mask # None =>
                     call.mask[1].val[BroadcastIndex(idx, call.mask[1].shape)] # 0

\* the first decode call after init_cache with a mask of the caller that
\* allows position 1: the mask handed over excludes position 1 > c = 0
C12_Witness ==
  /\ DecodeMaskHandedOver
  /\ result.cur_index = Some(0)
  /\ call.mask # None
  /\ \E idx \in DOMAIN result.attn[1].mask[1].val :
       /\ idx[Len(idx)] = 2
       /\ call.mask[1].val[BroadcastIndex(idx, call.mask[1].shape)] # 0
       /\ result.attn[1].mask[1].val[idx] = 0

\* the call with arguments a gets as far as the projections of line 459-461
Projected(a) ==
  /\ a.op = "call"
  /\ \E d \in {default_inputs(a.inputs_q, a.inputs_k, a.inputs_v)} :
       /\ d.status = "ok"
       /\ Last(a.inputs_q.shape) = self.features_in
       /\ Last(d.inputs_k.shape) = self.features_in
       /\ Last(d.inputs_v.shape) = self.features_in

ShapeError == "ValueError: Autoregressive cache shape error"

\* the projected query is one new position for the cached batch
ExactQueryShape(a) ==
  LinearGeneral(self, 1, a.inputs_q).shape
    = cache_batch_dims \o <<1, self.num_heads, self.head_dim>>

\* C13: a decode-mode call on an initialised cache whose projected query
\* shape is not [cached batch dims..., 1, num_heads, head_dim] fails with the
\* shape error and leaves cached_key, cached_value and cache_index as they
\* were; a call whose projected query has exactly that shape passes the check.
C13_QueryShapeCheck ==
  [][(self.decode /\ cached_key # None /\ Projected(call')) =>
       /\ ~ExactQueryShape(call') =>
            (result'.status = "error" /\ result'.err = ShapeError
             /\ UNCHANGED CacheVars)
       /\ ExactQueryShape(call') => result'.err # ShapeError
  ]_vars

(***************************************************************************)
(* Properties of the pure functions, checked under SpecPure.               *)
(***************************************************************************)
Applied(fn) == pure.fn = fn /\ pure.ret.status # "pending"

NonNone(masks) == {i \in 1..Len(masks) : masks[i] # None}

SameRank(masks) ==
  \A i, j \in NonNone(masks) : Len(masks[i][1].shape) = Len(masks[j][1].shape)

Compatible(masks) ==
  \A i, j \in NonNone(masks) : Broadcastable(masks[i][1].shape, masks[j][1].shape)

\* C7: combine_masks returns None exactly when every argument is None; with
\* non-None masks of one rank (and shapes that broadcast together) the result
\* is nonzero at a position iff every non-None mask is nonzero there, whatever
\* the order of the arguments; masks of differing rank make it fail.
C7_CombineMasks ==
  Applied("combine_masks") =>
    LET masks == pure.masks
        ret   == pure.ret
    IN  /\ (ret.status = "ok" /\ ret.out = None) <=> NonNone(masks) = {}
        /\ ~SameRank(masks) => ret.status = "error"
        /\ (NonNone(masks) # {} /\ SameRank(masks) /\ Compatible(masks)) =>
             /\ ret.status = "ok"
             /\ ret.out # None
             /\ \A idx \in IndexSet(ret.out[1].shape) :
                  (ret.out[1].val[idx] # 0) <=>
                    \A i \in NonNone(masks) :
                      masks[i][1].val[BroadcastIndex(idx, masks[i][1].shape)] # 0

C7_Witness ==
  /\ Applied("combine_masks")
  /\ pure.ret.status = "ok"
  /\ Cardinality(NonNone(pure.masks)) = 2
  /\ Len(pure.masks) = 3
  /\ pure.masks[1] = None
  /\ pure.masks[2] # pure.masks[3]
  /\ \E idx \in IndexSet(pure.ret.out[1].shape) : pure.ret.out[1].val[idx] = 0
  /\ \E idx \in IndexSet(pure.ret.out[1].shape) : pure.ret.out[1].val[idx] # 0

\* C8: make_causal_mask(x, extra_batch_dims) has shape
\* [1 (extra_batch_dims times), batch dims of x, 1, n, n] and its entry at
\* query position i and key position j is nonzero iff i >= j.
C8_CausalMask ==
  Applied("make_causal_mask") =>
    LET x == pure.x
        e == pure.extra_batch_dims
        n == x.shape[Len(x.shape)]
        m == pure.ret.out[1]
        r == Len(m.shape)
    IN  /\ pure.ret.status = "ok"
        /\ m.shape = [i \in 1..e |-> 1] \o SubSeq(x.shape, 1, Len(x.shape) - 1)
                       \o <<1, n, n>>
        /\ \A idx \in IndexSet(m.shape) : (m.val[idx] # 0) <=> (idx[r - 1] >= idx[r])

\* length 5, query position 2 (0-based): keys 0, 1, 2 allowed, 3 and 4 not
C8_Witness ==
  /\ Applied("make_causal_mask")
  /\ pure.x.shape = <<MaxBatch, 5>>
  /\ pure.extra_batch_dims = 1
  /\ \A j \in 1..3 : pure.ret.out[1].val[<<1, MaxBatch, 1, 3, j>>] = 1
  /\ \A j \in 4..5 : pure.ret.out[1].val[<<1, MaxBatch, 1, 3, j>>] = 0

NearZero(w) == w[1] = 0 \/ w[2] \div w[1] > TolInv

NoDropout == pure.deterministic \/ pure.dropout_rate = 0

MaskedAt(idx) ==
  pure.mask # None /\ pure.mask[1].val[BroadcastIndex(idx, pure.mask[1].shape)] = 0

\* the key positions of idx's row
RowOf(idx, shape) ==
  {SubSeq(idx, 1, Len(idx) - 1) \o <<j>> : j \in 1..shape[Len(shape)]}

\* C9 as stated: without dropout every position whose mask entry is False gets
\* a weight of approximately 0, whatever the bias and the rest of its row,
\* a row whose mask entries are all False included.
C9_MaskedWeightZero ==
  (Applied("dot_product_attention_weights") /\ pure.ret.status = "ok" /\ NoDropout) =>
    \A idx \in IndexSet(pure.ret.out[1].shape) :
      MaskedAt(idx) => NearZero(pure.ret.out[1].val[idx])

\* C9 amended: without dropout a position whose mask entry is False gets a
\* weight of approximately 0 provided its row has a position whose mask entry
\* is True and whose biased score is above the least finite value.
C9_MaskedWeightZeroInLiveRow ==
  (Applied("dot_product_attention_weights") /\ pure.ret.status = "ok" /\ NoDropout) =>
    LET out    == pure.ret.out[1]
        biased == attention_scores(pure.query, pure.key, pure.bias, None)
    IN  \A idx \in IndexSet(out.shape) :
          (/\ MaskedAt(idx)
           /\ \E jdx \in RowOf(idx, out.shape) :
                ~MaskedAt(jdx) /\ biased.val[jdx] > BigNeg)
          => NearZero(out.val[idx])

C9_Witness ==
  /\ Applied("dot_product_attention_weights")
  /\ pure.ret.status = "ok"
  /\ NoDropout
  /\ pure.bias # None
  /\ pure.key.shape[1] = MaxKv
  /\ MaskedAt(<<1, 1, 1>>)
  /\ ~MaskedAt(<<1, 1, 2>>)
  /\ MaskedAt(<<1, 1, MaxKv>>)
  /\ NearZero(pure.ret.out[1].val[<<1, 1, 1>>])
  /\ ~NearZero(pure.ret.out[1].val[<<1, 1, 2>>])

====
